---------------------------- MODULE Spec2Model ----------------------------
(***************************************************************************)
(* Model of src/main.py: the PMID annotation / citation-count pipeline.    *)
(*                                                                         *)
(* Text is modelled at character level: a Python str is a sequence of      *)
(* one-character strings, a file is the str of its whole content, a dict   *)
(* is a sequence of <<key, value>> pairs in insertion order.               *)
(*                                                                         *)
(* main is a coroutine: each action of main is the code between two of its *)
(* awaits.  The backoff delays of the retry decorator take time and change *)
(* nothing else, so a task in a backoff sleep is a pending task.           *)
(* create_plot only reads the report and draws it; pmids.txt exists.       *)
(***************************************************************************)
EXTENDS Integers, Sequences, FiniteSets, TLC

(***************************************************************************)
(* Python str primitives                                                   *)
(***************************************************************************)

\* str.strip() removes these from both ends
Whitespace == {" ", "\n", "\t", "\r"}

DigitChars == <<"0", "1", "2", "3", "4", "5", "6", "7", "8", "9">>

IsDigit(c) == \E d \in 1..10 : DigitChars[d] = c

DigitVal(c) == (CHOOSE d \in 1..10 : DigitChars[d] = c) - 1

MinOf(S) == CHOOSE x \in S : \A y \in S : x <= y

\* s[a:b] with Python's slice rules: a negative index counts from the end,
\* both indexes are clamped to 0..len(s), an empty range gives ''
SliceIndex(s, i) ==
    LET j == IF i < 0 THEN i + Len(s) ELSE i
    IN  IF j < 0 THEN 0 ELSE IF j > Len(s) THEN Len(s) ELSE j

Slice(s, a, b) == SubSeq(s, SliceIndex(s, a) + 1, SliceIndex(s, b))

\* s.find(pat): 0-based index of the first occurrence, -1 when there is none
Find(s, pat) ==
    LET hits == {i \in 0..(Len(s) - Len(pat)) : SubSeq(s, i + 1, i + Len(pat)) = pat}
    IN  IF hits = {} THEN -1 ELSE MinOf(hits)

Contains(s, pat) == Find(s, pat) # -1

RECURSIVE LStrip(_)
LStrip(s) ==
    IF s # <<>> /\ Head(s) \in Whitespace THEN LStrip(Tail(s)) ELSE s

RECURSIVE RStrip(_)
RStrip(s) ==
    IF s # <<>> /\ s[Len(s)] \in Whitespace THEN RStrip(SubSeq(s, 1, Len(s) - 1)) ELSE s

\* s.strip()
Strip(s) == RStrip(LStrip(s))

\* s.split(sep): cut at every occurrence of sep, left to right
RECURSIVE Split(_, _)
Split(s, sep) ==
    LET i == Find(s, sep)
    IN  IF i = -1 THEN <<s>>
        ELSE <<SubSeq(s, 1, i)>> \o Split(SubSeq(s, i + Len(sep) + 1, Len(s)), sep)

\* sep.join(parts)
RECURSIVE Join(_, _)
Join(sep, parts) ==
    IF parts = <<>> THEN <<>>
    ELSE IF Len(parts) = 1 THEN parts[1]
    ELSE parts[1] \o sep \o Join(sep, Tail(parts))

\* iterating a text file (and readlines()): each line keeps its "\n"
RECURSIVE ReadLines(_)
ReadLines(text) ==
    IF text = <<>> THEN <<>>
    ELSE LET i == Find(text, <<"\n">>)
         IN  IF i = -1 THEN <<text>>
             ELSE <<SubSeq(text, 1, i + 1)>> \o ReadLines(SubSeq(text, i + 2, Len(text)))

\* int(s) accepts surrounding whitespace, one sign and at least one digit
\* (underscores and non-ASCII digits are outside the modelled alphabet)
IntBody(s) ==
    LET t == Strip(s)
    IN  IF t # <<>> /\ Head(t) \in {"+", "-"} THEN Tail(t) ELSE t

IsIntLiteral(s) ==
    /\ IntBody(s) # <<>>
    /\ \A k \in 1..Len(IntBody(s)) : IsDigit(IntBody(s)[k])

RECURSIVE DigitsValue(_)
DigitsValue(ds) ==
    IF ds = <<>> THEN 0
    ELSE 10 * DigitsValue(SubSeq(ds, 1, Len(ds) - 1)) + DigitVal(ds[Len(ds)])

\* int(s) for an s that IsIntLiteral (otherwise int raises ValueError)
ParseInt(s) ==
    LET t == Strip(s)
    IN  IF Head(t) = "-" THEN 0 - DigitsValue(IntBody(s)) ELSE DigitsValue(IntBody(s))

\* f"{n}" for an int
RECURSIVE NatToStr(_)
NatToStr(n) ==
    IF n < 10 THEN <<DigitChars[n + 1]>>
    ELSE NatToStr(n \div 10) \o <<DigitChars[(n % 10) + 1]>>

IntToStr(n) == IF n < 0 THEN <<"-">> \o NatToStr(0 - n) ELSE NatToStr(n)

(***************************************************************************)
(* Python dict: <<key, value>> pairs in insertion order                    *)
(***************************************************************************)

DictKeys(d) == {d[k][1] : k \in 1..Len(d)}

DictHas(d, key) == key \in DictKeys(d)

DictGet(d, key) == d[CHOOSE k \in 1..Len(d) : d[k][1] = key][2]

\* d[key] = val: a present key keeps its position
DictSet(d, key, val) ==
    IF DictHas(d, key)
    THEN [k \in 1..Len(d) |-> IF d[k][1] = key THEN <<key, val>> ELSE d[k]]
    ELSE Append(d, <<key, val>>)

ColonSpace == <<":", " ">>

CommaSpace == <<",", " ">>

(***************************************************************************)
(* write_names_with_citation_counts                                        *)
(***************************************************************************)

\* [name.strip() for name in names_str.split(',')]
SplitNames(names_str) ==
    LET parts == Split(names_str, <<",">>)
    IN  [k \in 1..Len(parts) |-> Strip(parts[k])]

\* one iteration of the names-file loop: the try body, or the except branch
\* (a ValueError of the two-target unpacking) that skips the line
NamesLineStep(d, line) ==
    LET parts == Split(Strip(line), ColonSpace)
    IN  IF Len(parts) = 2 THEN DictSet(d, parts[1], SplitNames(parts[2])) ELSE d

\* the names-file loop with the try around the whole loop instead of around
\* one line, so that the first bad line ends it: the variant C7 is tried on
RECURSIVE ParseNamesLinesAbort(_, _)
ParseNamesLinesAbort(d, lines) ==
    IF lines = <<>> THEN d
    ELSE IF Len(Split(Strip(Head(lines)), ColonSpace)) # 2 THEN d
    ELSE ParseNamesLinesAbort(NamesLineStep(d, Head(lines)), Tail(lines))

RECURSIVE ParseNamesLines(_, _)
ParseNamesLines(d, lines) ==
    IF lines = <<>> THEN d
    ELSE ParseNamesLines(NamesLineStep(d, Head(lines)), Tail(lines))

\* pmid_to_names after the first loop
ParseNamesFile(text) == ParseNamesLines(<<>>, ReadLines(text))

\* one iteration of the counts-file loop: unpacking and int() may both raise
\* ValueError, which skips the line
CountsLineStep(d, line) ==
    LET parts == Split(Strip(line), ColonSpace)
    IN  IF Len(parts) = 2 /\ IsIntLiteral(parts[2])
        THEN DictSet(d, parts[1], ParseInt(parts[2]))
        ELSE d

RECURSIVE ParseCountsLines(_, _)
ParseCountsLines(d, lines) ==
    IF lines = <<>> THEN d
    ELSE ParseCountsLines(CountsLineStep(d, Head(lines)), Tail(lines))

\* pmid_to_citation_count after the second loop
ParseCountsFile(text) == ParseCountsLines(<<>>, ReadLines(text))

\* the inner loop: for name in names: total[name] (0 on first sight) += count
RECURSIVE AddNames(_, _, _)
AddNames(totals, names, count) ==
    IF names = <<>> THEN totals
    ELSE LET name == Head(names)
             old  == IF DictHas(totals, name) THEN DictGet(totals, name) ELSE 0
         IN  AddNames(DictSet(totals, name, old + count), Tail(names), count)

\* MapOnePmid without its "if pmid in pmid_to_citation_count" guard, reading
\* the count as pmid_to_citation_count.get(pmid, 0): the variant C6 is tried on
MapOnePmidUnguarded(totals, pmid, names, counts) ==
    AddNames(totals, names, IF DictHas(counts, pmid) THEN DictGet(counts, pmid) ELSE 0)

\* the body of the outer loop for one (pmid, names) item
MapOnePmid(totals, pmid, names, counts) ==
    IF DictHas(counts, pmid)
    THEN AddNames(totals, names, DictGet(counts, pmid))
    ELSE totals

RECURSIVE MapCounts(_, _, _)
MapCounts(totals, items, counts) ==
    IF items = <<>> THEN totals
    ELSE MapCounts(MapOnePmid(totals, Head(items)[1], Head(items)[2], counts),
                   Tail(items), counts)

\* names_to_citation_counts
NamesToCitationCounts(namesText, countsText) ==
    MapCounts(<<>>, ParseNamesFile(namesText), ParseCountsFile(countsText))

\* the output loop: f"{name}: {count}\n" per item
RECURSIVE WriteCountItems(_)
WriteCountItems(d) ==
    IF d = <<>> THEN <<>>
    ELSE Head(d)[1] \o ColonSpace \o IntToStr(Head(d)[2]) \o <<"\n">>
         \o WriteCountItems(Tail(d))

\* the content of output_file after the call
write_names_with_citation_counts(namesText, countsText) ==
    WriteCountItems(NamesToCitationCounts(namesText, countsText))

(***************************************************************************)
(* read_pmids, is_recent_file, the writers                                 *)
(***************************************************************************)

\* [line.strip() for line in file.readlines()]
read_pmids(text) ==
    LET lines == ReadLines(text)
    IN  [k \in 1..Len(lines) |-> Strip(lines[k])]

\* the freshness window of is_recent_file, in days
FreshDays == 7

\* a file: whether it exists, its age now - mtime in days, its content
NoFile == [exists |-> FALSE, age |-> 0, text |-> <<>>]

\* open(path, 'w') ... write(text): the file is truncated and its mtime is now
Written(text) == [exists |-> TRUE, age |-> 0, text |-> text]

\* is_recent_file comparing with <= instead of <: the variant C10 is tried on
is_recent_file_inclusive(f) ==
    IF ~f.exists THEN FALSE ELSE f.age <= FreshDays

is_recent_file(f) ==
    IF ~f.exists THEN FALSE ELSE f.age < FreshDays

\* for ann in annotation.get('annotations', []):
\*     names.extend([tag['name'] for tag in ann.get('tags', [])])
\* an annotation is the list of its 'annotations', each the list of its tags' names
RECURSIVE Flatten(_)
Flatten(lists) ==
    IF lists = <<>> THEN <<>> ELSE Head(lists) \o Flatten(Tail(lists))

extract_names(annotations) ==
    Flatten([k \in 1..Len(annotations) |-> Flatten(annotations[k])])

\* f"{pmid}: {', '.join(names)}\n" per item
RECURSIVE write_results(_)
write_results(results) ==
    IF results = <<>> THEN <<>>
    ELSE Head(results)[1] \o ColonSpace \o Join(CommaSpace, Head(results)[2]) \o <<"\n">>
         \o write_results(Tail(results))

\* f"{pmid}: {count}\n" per item
write_citation_counts(citation_counts) == WriteCountItems(citation_counts)

\* count_unique_names: lines holding ': ' are split on it, and the two-target
\* unpacking raises ValueError (uncaught) when that gives more than two parts
CountUniqueRaises(text) ==
    \E k \in 1..Len(ReadLines(text)) :
        /\ Contains(ReadLines(text)[k], ColonSpace)
        /\ Len(Split(ReadLines(text)[k], ColonSpace)) # 2

count_unique_names(text) ==
    LET lines == ReadLines(text)
        namesOf(line) ==
            LET ns == SplitNames(Split(line, ColonSpace)[2])
            IN  {ns[j] : j \in 1..Len(ns)}
    IN  Cardinality(UNION {namesOf(lines[k]) :
                           k \in {j \in 1..Len(lines) : Contains(lines[j], ColonSpace)}})

UniqueLabel ==
    <<"N", "u", "m", "b", "e", "r", " ", "o", "f", " ", "u", "n", "i", "q", "u", "e",
      " ", "n", "a", "m", "e", "s", ":", " ">>

\* f"Number of unique names: {count}\n"
write_unique_names_count(count) == UniqueLabel \o IntToStr(count) \o <<"\n">>

(***************************************************************************)
(* The fetchers under @retry(stop=stop_after_attempt(5))                   *)
(***************************************************************************)

\* stop_after_attempt(5)
MaxAttempts == 5

HitOpen == <<"<", "h", "i", "t", "C", "o", "u", "n", "t", ">">>

HitClose == <<"<", "/", "h", "i", "t", "C", "o", "u", "n", "t", ">">>

\* text[start:end] of fetch_citation_count
HitCountSlice(text) ==
    LET start == Find(text, HitOpen) + Len(HitOpen)
        end   == Find(text, HitClose)
    IN  Slice(text, start, end)

\* what an attempt hands back or raises
NoneResult == [kind |-> "None", json |-> <<>>, count |-> 0]

JsonResult(j) == [kind |-> "json", json |-> j, count |-> 0]

CountResult(n) == [kind |-> "count", json |-> <<>>, count |-> n]

RetryError == [kind |-> "RetryError", json |-> <<>>, count |-> 0]

Unset == [kind |-> "unset", json |-> <<>>, count |-> 0]

\* a task of the gather: pending (in flight or in a backoff sleep), or settled
\* as "returned" or "raised"; tries counts the attempts made, fails those that
\* raised, nonOk those the service answered with a status other than 200; body
\* is the response text a returned citation count was sliced from
NewTask ==
    [status |-> "pending", tries |-> 0, fails |-> 0, nonOk |-> 0, result |-> Unset,
     body |-> <<>>]

\* the attempt returned a value: tenacity hands it to the caller
Returned(t, r) ==
    [t EXCEPT !.status = "returned", !.tries = t.tries + 1, !.result = r]

\* Raised as it would be if the decorator handed None to the caller after the
\* last attempt (a retry_error_callback): the variant C2 is tried on
RaisedThenNone(t) ==
    IF t.tries + 1 >= MaxAttempts
    THEN [t EXCEPT !.status = "returned", !.tries = t.tries + 1, !.fails = t.fails + 1,
                   !.result = NoneResult]
    ELSE [t EXCEPT !.tries = t.tries + 1, !.fails = t.fails + 1]

\* the attempt raised: tenacity sleeps and tries again, or after the last
\* attempt raises RetryError to the caller
Raised(t) ==
    IF t.tries + 1 >= MaxAttempts
    THEN [t EXCEPT !.status = "raised", !.tries = t.tries + 1, !.fails = t.fails + 1,
                   !.result = RetryError]
    ELSE [t EXCEPT !.tries = t.tries + 1, !.fails = t.fails + 1]

\* the else branch raising instead of returning None, so that the decorator
\* retries it: the variant C4 is tried on
NonOkRaises(t) == [Raised(t) EXCEPT !.nonOk = t.nonOk + 1]

\* the else branch of both fetchers: print, return None
NonOk(t) == [Returned(t, NoneResult) EXCEPT !.nonOk = t.nonOk + 1]

\* fetch_annotations on a status-200 response: return await response.json()
AnnotationsOk(t, json) == Returned(t, JsonResult(json))

\* fetch_citation_count on a status-200 response: int() raises ValueError on a
\* slice that is no integer, and the decorator treats it as any other failure
CitationOk(t, text) ==
    IF IsIntLiteral(HitCountSlice(text))
    THEN [Returned(t, CountResult(ParseInt(HitCountSlice(text)))) EXCEPT !.body = text]
    ELSE Raised(t)

(***************************************************************************)
(* The inputs the model draws from                                         *)
(***************************************************************************)

\* pmids.txt: two PMIDs; a padded PMID followed by a blank line; the same
\* PMID twice; one PMID without a final newline; an empty file
PmidFiles ==
    { <<"1", "\n", "2", "\n">>,
      <<" ", "1", " ", "\n", "\n">>,
      <<"1", "\n", "1", "\n">>,
      <<"2">>,
      <<>> }

\* the decoded JSON of a status-200 annotation response: no article; an
\* article without annotations; one tag; tags X, Y of one annotation and X
\* again of a second annotation of the same article
AnnotationResponses ==
    { <<>>,
      << <<>> >>,
      << << << <<"X">> >> >> >>,
      << << << <<"X">>, <<"Y">> >>, << <<"X">> >> >> >> }

\* the text of a status-200 citation response
CitationBodies ==
    { HitOpen \o <<"2">> \o HitClose,
      HitClose \o HitOpen \o <<"2">> \o HitClose,
      <<"<", "r", "e", "s", "u", "l", "t", ">", "\n", "3", "\n">>,
      <<"<", "e", "r", "r", "o", "r", "/", ">">> }

\* what pmids_with_names.txt and pmid_citation_counts.txt may hold before the
\* run: entries of an earlier run, for a PMID 9 that is not in pmids.txt
OldNamesText == <<"9", ":", " ", "Z", "\n", "1", ":", " ", "X", "\n">>

OldCountsText == <<"9", ":", " ", "4", "\n", "1", ":", " ", "5", "\n">>

\* the oldest file found before the run, in days
MaxAge == 7

\* the ages, in days, of a file found before the run: from the last day inside
\* the freshness window on
OldAges == (FreshDays - 1)..MaxAge

OldFiles(text) == {NoFile} \cup {[exists |-> TRUE, age |-> a, text |-> text] : a \in OldAges}

\* the longest names file and counts file the aggregator is applied to, in lines
MaxLines == 2

NameLines ==
    { <<"1", ":", " ", "X", "\n">>,
      <<"1", ":", " ", "X", ",", " ", "Y", "\n">>,
      <<"1", ":", " ", "X", ",", " ", "X", "\n">>,
      <<"2", ":", " ", "X", "\n">>,
      <<"3", ":", " ", "Y", "\n">>,
      <<"3", " ", "Z", "\n">> }

CountLines ==
    { <<"1", ":", " ", "2", "\n">>,
      <<"2", ":", " ", "1", "\n">>,
      <<"4", ":", " ", "1", "\n">>,
      <<"2", ":", " ", "x", "\n">>,
      <<"2", " ", "5", "\n">> }

SeqsUpTo(S, n) == UNION {[1..k -> S] : k \in 0..n}

TextsOf(lines, n) == {Flatten(ls) : ls \in SeqsUpTo(lines, n)}

(***************************************************************************)
(* main                                                                    *)
(***************************************************************************)

VARIABLES
    pc,                      \* where main is: start, fetch1, fetch2, raised, crashed, done
    pmidsFile,               \* the content of pmids.txt
    pmids,                   \* the list read from it
    namesFile,               \* pmids_with_names.txt
    countsFile,              \* pmid_citation_counts.txt
    uniqueFile,              \* unique_names_count.txt
    reportFile,              \* names_with_citation_counts.txt
    results_recent,
    citation_counts_recent,
    tasks,                   \* the tasks of the running gather, one per PMID
    annotations_list,        \* what the annotation gather returned
    results,                 \* the dict of the annotation stage
    citation_counts_list,    \* what the citation gather returned
    citation_counts,         \* the dict of the citation stage
    names0,                  \* pmids_with_names.txt as the run found it
    counts0                  \* pmid_citation_counts.txt as the run found it

vars ==
    <<pc, pmidsFile, pmids, namesFile, countsFile, uniqueFile, reportFile, results_recent,
      citation_counts_recent, tasks, annotations_list, results, citation_counts_list,
      citation_counts, names0, counts0>>

Init ==
    /\ pc = "start"
    /\ pmidsFile \in PmidFiles
    /\ pmids = <<>>
    /\ namesFile \in OldFiles(OldNamesText)
    /\ countsFile \in OldFiles(OldCountsText)
    /\ uniqueFile = NoFile
    /\ reportFile = NoFile
    /\ results_recent = FALSE
    /\ citation_counts_recent = FALSE
    /\ tasks = <<>>
    /\ annotations_list = <<>>
    /\ results = <<>>
    /\ citation_counts_list = <<>>
    /\ citation_counts = <<>>
    /\ names0 = namesFile
    /\ counts0 = countsFile

\* tasks = [fetch(session, pmid) for pmid in pmids]
Dispatch(ps) == [k \in 1..Len(ps) |-> NewTask]

\* for pmid, annotations in zip(pmids, annotations_list):
\*     if annotations: results[pmid] = extract_names(annotations)
RECURSIVE BuildResults(_, _, _)
BuildResults(d, ps, rs) ==
    IF ps = <<>> THEN d
    ELSE LET r == Head(rs)
         IN  BuildResults(IF r.kind = "json" /\ r.json # <<>>
                          THEN DictSet(d, Head(ps), extract_names(r.json))
                          ELSE d,
                          Tail(ps), Tail(rs))

\* for pmid, count in zip(pmids, citation_counts_list):
\*     if count is not None: citation_counts[pmid] = count
RECURSIVE BuildCounts(_, _, _)
BuildCounts(d, ps, rs) ==
    IF ps = <<>> THEN d
    ELSE LET r == Head(rs)
         IN  BuildCounts(IF r.kind # "None" THEN DictSet(d, Head(ps), r.count) ELSE d,
                         Tail(ps), Tail(rs))

\* the list gather returns: each task's result, in the order of the tasks
GatherResults(ts) == [k \in 1..Len(ts) |-> ts[k].result]

\* main from "if not citation_counts_recent" on, up to its next await or its
\* end: the citation gather is awaited, or the report is written
AfterNames(recent) ==
    IF ~recent
    THEN /\ tasks' = Dispatch(pmids')
         /\ pc' = "fetch2"
         /\ UNCHANGED <<countsFile, reportFile, citation_counts_list, citation_counts>>
    ELSE /\ tasks' = <<>>
         /\ pc' = "done"
         /\ reportFile' = Written(write_names_with_citation_counts(namesFile'.text,
                                                                   countsFile.text))
         /\ UNCHANGED <<countsFile, citation_counts_list, citation_counts>>

\* main up to its first await
Start ==
    /\ pc = "start"
    /\ pmids' = read_pmids(pmidsFile)
    /\ results_recent' = is_recent_file(namesFile)
    /\ citation_counts_recent' = is_recent_file(countsFile)
    /\ IF ~is_recent_file(namesFile)
       THEN /\ tasks' = Dispatch(pmids')
            /\ pc' = "fetch1"
            /\ UNCHANGED <<namesFile, countsFile, reportFile, citation_counts_list,
                           citation_counts>>
       ELSE /\ namesFile' = namesFile
            /\ AfterNames(is_recent_file(countsFile))
    /\ UNCHANGED <<pmidsFile, uniqueFile, annotations_list, results, names0, counts0>>

Fetching == pc \in {"fetch1", "fetch2"}

\* an attempt raises: the connection fails, or the body cannot be decoded
AttemptRaises(i) ==
    /\ Fetching
    /\ tasks[i].status = "pending"
    /\ tasks' = [tasks EXCEPT ![i] = Raised(tasks[i])]
    /\ UNCHANGED <<pc, pmidsFile, pmids, namesFile, countsFile, uniqueFile, reportFile,
                   results_recent, citation_counts_recent, annotations_list, results,
                   citation_counts_list, citation_counts, names0, counts0>>

\* the service answers an attempt with a status other than 200
AttemptNonOk(i) ==
    /\ Fetching
    /\ tasks[i].status = "pending"
    /\ tasks' = [tasks EXCEPT ![i] = NonOk(tasks[i])]
    /\ UNCHANGED <<pc, pmidsFile, pmids, namesFile, countsFile, uniqueFile, reportFile,
                   results_recent, citation_counts_recent, annotations_list, results,
                   citation_counts_list, citation_counts, names0, counts0>>

\* the annotation service answers an attempt with status 200
AttemptAnnotationsOk(i) ==
    /\ pc = "fetch1"
    /\ tasks[i].status = "pending"
    /\ \E json \in AnnotationResponses :
           tasks' = [tasks EXCEPT ![i] = AnnotationsOk(tasks[i], json)]
    /\ UNCHANGED <<pc, pmidsFile, pmids, namesFile, countsFile, uniqueFile, reportFile,
                   results_recent, citation_counts_recent, annotations_list, results,
                   citation_counts_list, citation_counts, names0, counts0>>

\* the citation service answers an attempt with status 200
AttemptCitationOk(i) ==
    /\ pc = "fetch2"
    /\ tasks[i].status = "pending"
    /\ \E text \in CitationBodies :
           tasks' = [tasks EXCEPT ![i] = CitationOk(tasks[i], text)]
    /\ UNCHANGED <<pc, pmidsFile, pmids, namesFile, countsFile, uniqueFile, reportFile,
                   results_recent, citation_counts_recent, annotations_list, results,
                   citation_counts_list, citation_counts, names0, counts0>>

AllReturned == \A i \in 1..Len(tasks) : tasks[i].status = "returned"

SomeRaised == \E i \in 1..Len(tasks) : tasks[i].status = "raised"

\* await asyncio.gather(*tasks) of the annotation stage returns: main runs on
\* to its next await, its end, or the ValueError of count_unique_names
GatherAnnotationsReturns ==
    /\ pc = "fetch1"
    /\ AllReturned
    /\ annotations_list' = GatherResults(tasks)
    /\ results' = BuildResults(<<>>, pmids, annotations_list')
    /\ namesFile' = Written(write_results(results'))
    /\ pmids' = pmids
    /\ IF CountUniqueRaises(namesFile'.text)
       THEN /\ pc' = "crashed"
            /\ UNCHANGED <<tasks, uniqueFile, countsFile, reportFile, citation_counts_list,
                           citation_counts>>
       ELSE /\ uniqueFile' =
                   Written(write_unique_names_count(count_unique_names(namesFile'.text)))
            /\ AfterNames(citation_counts_recent)
    /\ UNCHANGED <<pmidsFile, results_recent, citation_counts_recent, names0, counts0>>

\* await asyncio.gather(*tasks) of the citation stage returns: main runs to its end
GatherCitationsReturns ==
    /\ pc = "fetch2"
    /\ AllReturned
    /\ citation_counts_list' = GatherResults(tasks)
    /\ citation_counts' = BuildCounts(<<>>, pmids, citation_counts_list')
    /\ countsFile' = Written(write_citation_counts(citation_counts'))
    /\ reportFile' = Written(write_names_with_citation_counts(namesFile.text,
                                                              countsFile'.text))
    /\ pc' = "done"
    /\ UNCHANGED <<pmidsFile, pmids, namesFile, uniqueFile, results_recent,
                   citation_counts_recent, tasks, annotations_list, results, names0,
                   counts0>>

\* gather without return_exceptions: the first exception of a task is raised in
\* main at once, the "async with" block closes the session and main is left;
\* the other tasks are not cancelled and not awaited
GatherRaises ==
    /\ Fetching
    /\ SomeRaised
    /\ pc' = "raised"
    /\ UNCHANGED <<pmidsFile, pmids, namesFile, countsFile, uniqueFile, reportFile,
                   results_recent, citation_counts_recent, tasks, annotations_list, results,
                   citation_counts_list, citation_counts, names0, counts0>>

\* asyncio.run ends: the tasks still pending are cancelled, the error is re-raised
Terminate ==
    /\ pc = "raised"
    /\ pc' = "crashed"
    /\ tasks' = [k \in 1..Len(tasks) |->
                    IF tasks[k].status = "pending"
                    THEN [tasks[k] EXCEPT !.status = "cancelled"]
                    ELSE tasks[k]]
    /\ UNCHANGED <<pmidsFile, pmids, namesFile, countsFile, uniqueFile, reportFile,
                   results_recent, citation_counts_recent, annotations_list, results,
                   citation_counts_list, citation_counts, names0, counts0>>

Next ==
    \/ Start
    \/ \E i \in 1..Len(tasks) : AttemptRaises(i)
    \/ \E i \in 1..Len(tasks) : AttemptNonOk(i)
    \/ \E i \in 1..Len(tasks) : AttemptAnnotationsOk(i)
    \/ \E i \in 1..Len(tasks) : AttemptCitationOk(i)
    \/ GatherAnnotationsReturns
    \/ GatherCitationsReturns
    \/ GatherRaises
    \/ Terminate

Spec == Init /\ [][Next]_vars

(***************************************************************************)
(* write_names_with_citation_counts applied to any two files               *)
(***************************************************************************)

InitAgg ==
    /\ pc = "aggregate"
    /\ pmidsFile = <<>>
    /\ pmids = <<>>
    /\ namesFile \in {Written(t) : t \in TextsOf(NameLines, MaxLines)}
    /\ countsFile \in {Written(t) : t \in TextsOf(CountLines, MaxLines)}
    /\ uniqueFile = NoFile
    /\ reportFile = NoFile
    /\ results_recent = FALSE
    /\ citation_counts_recent = FALSE
    /\ tasks = <<>>
    /\ annotations_list = <<>>
    /\ results = <<>>
    /\ citation_counts_list = <<>>
    /\ citation_counts = <<>>
    /\ names0 = namesFile
    /\ counts0 = countsFile

Aggregate ==
    /\ pc = "aggregate"
    /\ reportFile' = Written(write_names_with_citation_counts(namesFile.text,
                                                              countsFile.text))
    /\ pc' = "aggregated"
    /\ UNCHANGED <<pmidsFile, pmids, namesFile, countsFile, uniqueFile, results_recent,
                   citation_counts_recent, tasks, annotations_list, results,
                   citation_counts_list, citation_counts, names0, counts0>>

NextAgg == Aggregate

SpecAgg == InitAgg /\ [][NextAgg]_vars

(***************************************************************************)
(* Properties                                                              *)
(***************************************************************************)

ElemsOf(seq) == {seq[k] : k \in 1..Len(seq)}

Occurrences(seq, x) == Cardinality({k \in 1..Len(seq) : seq[k] = x})

Without(seq, i) == SubSeq(seq, 1, i - 1) \o SubSeq(seq, i + 1, Len(seq))

\* the keys of the "key: value" lines of a written artifact
EntryKeys(text) ==
    {Split(ReadLines(text)[k], ColonSpace)[1] : k \in 1..Len(ReadLines(text))}

\* the report has been written from the two artifacts
Aggregated == pc \in {"done", "aggregated"}

NamesMap == ParseNamesFile(namesFile.text)

CountsMap == ParseCountsFile(countsFile.text)

Report == ParseCountsFile(reportFile.text)

\* the PMIDs present in both parsed maps
InBoth == DictKeys(NamesMap) \cap DictKeys(CountsMap)

\* the sum of the counts of the PMIDs of S
RECURSIVE SumCounts(_)
SumCounts(S) ==
    IF S = {} THEN 0
    ELSE LET p == CHOOSE q \in S : TRUE
         IN  DictGet(CountsMap, p) + SumCounts(S \ {p})

\* the sum over the PMIDs of S of count times occurrences of name in the list
RECURSIVE SumWeighted(_, _)
SumWeighted(S, name) ==
    IF S = {} THEN 0
    ELSE LET p == CHOOSE q \in S : TRUE
         IN  DictGet(CountsMap, p) * Occurrences(DictGet(NamesMap, p), name)
             + SumWeighted(S \ {p}, name)

JoinedNames == UNION {ElemsOf(DictGet(NamesMap, p)) : p \in InBoth}

\* C1: after write_names_with_citation_counts, every Name of a PMID that has a
\* parsed count is written with the sum of the counts of the PMIDs whose
\* parsed name list includes it, each PMID counted once
C1_WeightIsSumOverPmids ==
    Aggregated =>
        \A name \in JoinedNames :
            /\ DictHas(Report, name)
            /\ DictGet(Report, name)
                   = SumCounts({p \in InBoth : name \in ElemsOf(DictGet(NamesMap, p))})

\* C2: no fetch makes more than 5 attempts; a fetch whose 5 attempts all failed
\* has raised RetryError and handed back no None and no data; and once a fetch
\* has raised, main never gets to write the report
C2_RetryExhausted ==
    /\ \A i \in 1..Len(tasks) :
           /\ tasks[i].tries <= MaxAttempts
           /\ tasks[i].fails >= MaxAttempts => tasks[i].status = "raised"
           /\ tasks[i].status = "raised" =>
                  /\ tasks[i].tries = MaxAttempts
                  /\ tasks[i].result = RetryError
    /\ SomeRaised => /\ pc \in {"fetch1", "fetch2", "raised", "crashed"}
                     /\ ~reportFile.exists

\* a fetch used up its attempts and the run ended on its error
C2_Witness == pc = "crashed" /\ SomeRaised

\* the integer between the first start marker and the first end marker after it
MarkedText(text) ==
    LET rest == SubSeq(text, Find(text, HitOpen) + Len(HitOpen) + 1, Len(text))
    IN  SubSeq(rest, 1, Find(rest, HitClose))

HasMarkerPair(text) ==
    /\ Contains(text, HitOpen)
    /\ Contains(SubSeq(text, Find(text, HitOpen) + Len(HitOpen) + 1, Len(text)), HitClose)

\* C3: a count that fetch_citation_count returns for a status-200 body is the
\* integer between the first <hitCount> and the first </hitCount> after it; a
\* body without that marker pair never yields a count
C3_CountIsMarkedInteger ==
    \A i \in 1..Len(tasks) :
        tasks[i].result.kind = "count" =>
            /\ HasMarkerPair(tasks[i].body)
            /\ IsIntLiteral(MarkedText(tasks[i].body))
            /\ tasks[i].result.count = ParseInt(MarkedText(tasks[i].body))

\* the annotation stage has written pmids_with_names.txt in this run
NamesWritten == uniqueFile.exists

\* the citation stage has written pmid_citation_counts.txt in this run
CountsWritten == pc = "done" /\ ~citation_counts_recent

C5_RoundTrip ==
    /\ NamesWritten => ElemsOf(ParseNamesFile(namesFile.text)) = ElemsOf(results)
    /\ CountsWritten => ElemsOf(ParseCountsFile(countsFile.text)) = ElemsOf(citation_counts)

\* C6: the keys of the report are the names of the PMIDs present in both parsed
\* maps, its weights add up counts of those PMIDs only, and the report is
\* written whatever PMIDs are present in one map alone
C6_KeysFromJoinedPmids ==
    Aggregated =>
        /\ reportFile.exists
        /\ DictKeys(Report) = JoinedNames
        /\ \A name \in DictKeys(Report) :
               DictGet(Report, name) = SumWeighted(InBoth, name)

\* a report with entries, written from a names file and a counts file that
\* each hold a PMID the other lacks
C6_Witness ==
    /\ pc = "aggregated"
    /\ Report # <<>>
    /\ DictKeys(NamesMap) \ DictKeys(CountsMap) # {}
    /\ DictKeys(CountsMap) \ DictKeys(NamesMap) # {}

\* a line without the ": " separator
Malformed(line) == ~Contains(line, ColonSpace)

HasSeparator(line) == Contains(line, ColonSpace)

\* the file without its malformed lines
WithoutMalformed(text) == Flatten(SelectSeq(ReadLines(text), HasSeparator))

\* C7: the report is written, and it is the report of the two files with their
\* malformed lines removed
C7_MalformedLinesSkipped ==
    Aggregated =>
        reportFile = Written(write_names_with_citation_counts(
                                 WithoutMalformed(namesFile.text),
                                 WithoutMalformed(countsFile.text)))

\* a malformed first line in both files, and a report with an entry that comes
\* from the lines after them
C7_Witness ==
    /\ pc = "aggregated"
    /\ Len(ReadLines(namesFile.text)) = 2
    /\ Malformed(ReadLines(namesFile.text)[1])
    /\ Len(ReadLines(countsFile.text)) = 2
    /\ Malformed(ReadLines(countsFile.text)[1])
    /\ Report # <<>>

IsNonEmpty(line) == line # <<>>

\* C8: read_pmids returns the non-empty trimmed lines of the file, in file order
C8_NonEmptyTrimmedLines ==
    pc # "start" =>
        /\ \A k \in 1..Len(pmids) : pmids[k] # <<>>
        /\ pmids = SelectSeq([k \in 1..Len(ReadLines(pmidsFile)) |->
                                  Strip(ReadLines(pmidsFile)[k])], IsNonEmpty)

\* C9: when the gather raises and main leaves the fetch stage, no request of
\* the batch is still pending
C9_JoinAll ==
    pc = "raised" => \A i \in 1..Len(tasks) : tasks[i].status # "pending"

Fresh(f) == f.exists /\ f.age < FreshDays

\* C10: at the end of a run that wrote the report, each fetch artifact is what
\* the run found if that was younger than 7 days, and otherwise holds the
\* entries of this run's gather and nothing else; the report is the one
\* written from the two artifacts as they are now
C10_CacheOrRegenerate ==
    pc = "done" =>
        /\ namesFile = IF Fresh(names0) THEN names0
                       ELSE Written(write_results(BuildResults(<<>>, pmids,
                                                               annotations_list)))
        /\ ~Fresh(names0) => EntryKeys(namesFile.text) \subseteq ElemsOf(pmids)
        /\ countsFile = IF Fresh(counts0) THEN counts0
                        ELSE Written(write_citation_counts(
                                         BuildCounts(<<>>, pmids, citation_counts_list)))
        /\ ~Fresh(counts0) => EntryKeys(countsFile.text) \subseteq ElemsOf(pmids)
        /\ reportFile = Written(write_names_with_citation_counts(namesFile.text,
                                                                 countsFile.text))

\* a run that left a 6 days old names file alone, replaced a 7 days old counts
\* file by what it fetched, and wrote the report
C10_Witness ==
    /\ pc = "done"
    /\ Fresh(names0)
    /\ namesFile = names0
    /\ counts0.exists
    /\ counts0.age = FreshDays
    /\ countsFile.age = 0
    /\ citation_counts # <<>>
    /\ reportFile.exists

=============================================================================
